---- MODULE Spec2Model ----
(***************************************************************************)
(* The deletion detector of the relay (src/deletion_detector/bot.py):      *)
(* track_message fills the in-memory message_cache, handle_deleted_messages *)
(* resolves a deletion against the SQLite ledger and posts the webhook, and *)
(* periodic_check polls the cached messages.  The detector runs on one      *)
(* asyncio event loop: the code between two awaits runs without yielding to *)
(* the other task, while the clock, the upstream platform, the relay (the   *)
(* other writer of the ledger) and the storage move at any moment.          *)
(*                                                                          *)
(* The dispatcher of the upstream client is not part of this repository.    *)
(* SpecDispatch delivers an event as the client library documents it: in a  *)
(* handler group, the first registered handler whose filter passes runs,    *)
(* and no other.  The other specifications take a handler as called, and    *)
(* say what it does when it is.  SpecStartup is main() from its first line. *)
(***************************************************************************)
EXTENDS Integers, Sequences, FiniteSets, TLC

\* ---------------------------------------------------------------- bounds
NumMsgs == 2
NumRaceMsgs == 1
NumMapIds == 1
MaxClockSteps == 3
MaxBatchTime == 3600
MaxEvents == 3

\* ------------------------------------------------------ program constants
MinCheckAge == 10
MaxRetention == 3600
PollInterval == 30
BatchLimit == 50
BusyTimeout == 30
StatusOK == 200
NoMapping == 0

Msgs == 1..NumMsgs
RaceMsgs == 1..NumRaceMsgs
\* The mapping ids the relay writes to message_tracking, and those it writes
\* to platform_messages: kept apart, so that a mapping id tells its table.
MapIds == 1..NumMapIds
PlatformMapIds == {NumMapIds + k : k \in MapIds}
Tasks == {"live", "poll"}

\* Message kinds of the upstream platform: a text message, a media message,
\* and a service message (neither text nor media).
Kinds == {"text", "media", "service"}

\* The clock moves by these amounts: one minimum-check age, one poll
\* interval, or one retention window.
ClockSteps == {MinCheckAge, PollInterval, MaxRetention}

\* What the webhook call can end in: HTTP 200, another status, or an
\* exception of the HTTP client (0).
PostOutcomes == {StatusOK, 500, 0}

VARIABLES
    now,               \* datetime.now(), in seconds
    nclock,            \* how many times the clock has moved
    upstream,          \* the platform: per message "unsent", its kind, or "deleted"
    message_cache,     \* app.message_cache, in insertion order
    message_tracking,  \* committed rows of table message_tracking
    platform_messages, \* committed mapping_id of table platform_messages
    dbdown,            \* the storage is unavailable
    dblock,            \* who holds SQLite's write lock
    h,                 \* the two invocations of handle_deleted_messages
    poll,              \* periodic_check
    posts,             \* the webhook calls made, per message resolved
    resolved,          \* history: per message, the paths that looked it up and marked it,
                       \*          each with the mapping_id it found and whether it found a row
    markedNull,        \* history: marked deleted and committed with no mapping
    storeFailed,       \* history: a storage failure hit the resolution of a cached message
    dup,               \* history: per message, a second seen event was handled (seen) and
                       \*          a second recordSeen was made (recorded)
    polled,            \* history: per message "no", "due" once a tick has found it due,
                       \*          "fetched" once a get_messages for it was answered
    dispatched,        \* the listener: whether it runs, and the last event it got with
                       \*          the handler the dispatcher ran for it
    proc               \* main() and the process: where it is, and its exit status

vars == <<now, nclock, upstream, message_cache, message_tracking, platform_messages,
          dbdown, dblock, h, poll, posts, resolved, markedNull, storeFailed, dup, polled,
          dispatched, proc>>

envvars == <<now, nclock, upstream, dbdown>>
ledgervars == <<message_tracking, platform_messages>>
histvars == <<resolved, markedNull, storeFailed, dup>>
bootvars == <<dispatched, proc>>

\* ---------------------------------------------------------------- helpers
Min(a, b) == IF a < b THEN a ELSE b

Range(s) == {s[k] : k \in 1..Len(s)}

RECURSIVE SetToSeq(_)
SetToSeq(S) ==
    IF S = {} THEN << >>
    ELSE LET x == CHOOSE y \in S : \A z \in S : y <= z
         IN <<x>> \o SetToSeq(S \ {x})

\* ------------------------------------------------------------- the cache
CacheIds(cache) == {cache[k].id : k \in 1..Len(cache)}

InCache(m) == m \in CacheIds(message_cache)

EntryOf(cache, m) == cache[CHOOSE k \in 1..Len(cache) : cache[k].id = m]

CacheEntry(m) == EntryOf(message_cache, m)

\* A put that adds an entry whether or not the key is there.
CachePutAppend(cache, m, t) == Append(cache, [id |-> m, timestamp |-> t])

\* app.message_cache[message.id] = {...}: a new key goes last, an existing
\* key keeps its place and gets the new value.
CachePut(cache, m, t) ==
    IF m \in CacheIds(cache)
    THEN [k \in 1..Len(cache) |->
            IF cache[k].id = m THEN [id |-> m, timestamp |-> t] ELSE cache[k]]
    ELSE Append(cache, [id |-> m, timestamp |-> t])

\* A delete that drops the oldest entry, whatever the id.
CacheDelHead(cache, m) == IF cache = << >> THEN cache ELSE Tail(cache)

\* if msg_id in app.message_cache: del app.message_cache[msg_id]
CacheDel(cache, m) == SelectSeq(cache, LAMBDA e : e.id # m)

\* ------------------------------------------------------------ the ledger
NoRow == [exists |-> FALSE, mapping_id |-> NoMapping, is_deleted |-> FALSE, deleted_at |-> -1]

NewRow == [exists |-> TRUE, mapping_id |-> NoMapping, is_deleted |-> FALSE, deleted_at |-> -1]

\* recordSeen: insert-or-ignore a row keyed by the platform message id.
InsertOrIgnore(row) == IF row.exists THEN row ELSE NewRow

\* A mark that sets the flag and leaves deleted_at alone.
MarkDeletedFlagOnly(row, t) == [row EXCEPT !.is_deleted = TRUE]

\* A mark that flips the flag instead of setting it.
MarkDeletedToggle(row, t) == [row EXCEPT !.is_deleted = ~row.is_deleted, !.deleted_at = t]

\* UPDATE message_tracking SET is_deleted = TRUE, deleted_at = datetime('now')
MarkDeleted(row, t) == [row EXCEPT !.is_deleted = TRUE, !.deleted_at = t]

\* A lookup that falls back on a mapping of its own.
MappingOfDefault(result, mapping_result) ==
    IF result.exists /\ result.mapping_id # NoMapping THEN result.mapping_id
    ELSE IF mapping_result # NoMapping THEN mapping_result
    ELSE 1

\* A lookup that prefers the mapping of platform_messages.
MappingOfPlatformFirst(result, mapping_result) ==
    IF mapping_result # NoMapping THEN mapping_result
    ELSE IF result.exists /\ result.mapping_id # NoMapping THEN result.mapping_id
    ELSE NoMapping

\* mapping_id from the row of message_tracking, else from platform_messages
MappingOf(result, mapping_result) ==
    IF result.exists /\ result.mapping_id # NoMapping THEN result.mapping_id
    ELSE IF mapping_result # NoMapping THEN mapping_result
    ELSE NoMapping

\* ------------------------------------------------------------ the poller
\* The age test with >= for the minimum, and the one without the maximum.
IsDueFromMin(age) == age >= MinCheckAge /\ age < MaxRetention

IsDueNoMax(age) == age > MinCheckAge

\* if msg_age > 10 and msg_age < 3600
IsDue(age) == age > MinCheckAge /\ age < MaxRetention

\* The ids of the cache entries a tick at time t finds due.
DueIds(cache, t) == {cache[k].id : k \in {j \in 1..Len(cache) : IsDue(t - cache[j].timestamp)}}

\* A selection without the limit.
MessagesToCheckAll(cache, t) ==
    LET due == SelectSeq(cache, LAMBDA e : IsDue(t - e.timestamp))
    IN [k \in 1..Len(due) |-> due[k].id]

\* messages_to_check[:50]
MessagesToCheck(cache, t) ==
    LET due == SelectSeq(cache, LAMBDA e : IsDue(t - e.timestamp))
    IN [k \in 1..Min(BatchLimit, Len(due)) |-> due[k].id]

\* What get_messages can answer for a message in the given upstream state:
\* a message object (its kind), an empty one, None, an error of the
\* not-found class, or another error.
FetchOutcomes(u) ==
    IF u \in Kinds THEN {u, "FLOOD_WAIT"}
    ELSE {"None", "empty", "MESSAGE_ID_INVALID", "Message not found", "FLOOD_WAIT"}

AllFetchOutcomes == UNION {FetchOutcomes(u) : u \in Kinds \cup {"deleted"}}

\* get_messages raised instead of returning.
IsException(res) == res \in {"MESSAGE_ID_INVALID", "Message not found", "FLOOD_WAIT"}

\* msg is None or msg.empty or (msg.text is None and msg.media is None)
HasText(res) == res = "text"

HasMedia(res) == res = "media"

IsGone(res) == res = "None" \/ res = "empty" \/ (~HasText(res) /\ ~HasMedia(res))

\* A test that takes every error for a not-found one.
NotFoundClassAny(res) == TRUE

\* "MESSAGE_ID_INVALID" in str(e) or "message not found" in str(e).lower()
NotFoundClass(res) == res = "MESSAGE_ID_INVALID" \/ res = "Message not found"

\* ------------------------------------------------------------ the tasks
NoData == [telegram_msg_id |-> 0, mapping_id |-> NoMapping]

Idle == [pc |-> "idle", messages |-> << >>, i |-> 0, pending |-> {}, webhook_data |-> NoData]

\* periodic_check at `await asyncio.sleep(30)`; the locals of the last tick
\* are dead there.
Asleep(t) == [pc |-> "sleep", wakeAt |-> t + PollInterval, current_time |-> 0,
              messages |-> << >>, idx |-> 0, res |-> "none", site |-> "none"]

Other(t) == IF t = "live" THEN "poll" ELSE "live"

\* The task is inside a stretch of code that does not await.  The poller
\* calls the handler directly, so its invocation runs on from the call; the
\* live invocation is a task of its own that starts when the loop is free.
Running(t) ==
    IF t = "poll" THEN h[t].pc \in {"begin", "item", "commit"}
    ELSE h[t].pc \in {"item", "commit"}

LoopFree == ~Running("live") /\ ~Running("poll")

\* ---------------------------------------------------------- the listener
\* The handlers of bot.py in the order their decorators register them, all
\* in the default group, with their filter: none, or filters.chat(GROUP_ID).
MessageHandlers ==
    << [name |-> "test_any_message", filter |-> "none"],
       [name |-> "debug_all_messages", filter |-> "none"],
       [name |-> "track_message", filter |-> "chat"] >>

DeletedHandlers ==
    << [name |-> "handle_any_deleted_messages", filter |-> "none"],
       [name |-> "handle_deleted_messages", filter |-> "chat"] >>

\* The chat of an event: the monitored group, another chat the account
\* knows, or a chat whose peer it has not resolved.
Chats == {"monitored", "other", "unknown"}

Matches(handler, chat) == handler.filter = "none" \/ chat = "monitored"

\* A dispatcher that runs the handler registered last, whatever its filter.
DispatchedLast(handlers, chat) == handlers[Len(handlers)].name

\* The handler the dispatcher of the client runs for an event: within a
\* group, the first registered handler whose filter passes, and no other.
Dispatched(handlers, chat) ==
    LET passing == {k \in 1..Len(handlers) : Matches(handlers[k], chat)}
    IN IF passing = {} THEN "none"
       ELSE handlers[CHOOSE k \in passing : \A j \in passing : k <= j].name

\* utils.get_peer_type before the patch: ValueError for a peer id the
\* account has not resolved.
original_get_peer_type(chat) == IF chat = "unknown" THEN "Peer id invalid" ELSE "channel"

\* The patch: the ValueError "Peer id invalid" becomes the type "channel".
safe_get_peer_type(chat) ==
    IF original_get_peer_type(chat) = "Peer id invalid" THEN "channel"
    ELSE original_get_peer_type(chat)

NoEvent == [listening |-> TRUE, n |-> 0, event |-> "none", chat |-> "none", ids |-> {},
            handler |-> "none"]

\* ------------------------------------------------------------------ main
\* sys.exit(1) for an exception out of asyncio.run(main()), and a plain end
\* of the script after KeyboardInterrupt.
ExitStatusZero(exc) == 0

ExitStatus(exc) == IF exc = "KeyboardInterrupt" THEN 0 ELSE 1

\* main() before app.start(): the client is not connected and no task of
\* the detector exists.
Starting == [pc |-> "start", started |-> FALSE, failed |-> "none", status |-> -1]

\* main() at `await asyncio.Event().wait()`: the client is started and
\* periodic_check is a task.
Serving == [pc |-> "serving", started |-> TRUE, failed |-> "none", status |-> -1]

Exited(p, exc) == [p EXCEPT !.pc = "exited", !.failed = exc, !.status = ExitStatus(exc)]

\* periodic_check before asyncio.create_task(periodic_check()).
NotCreated == [Asleep(0) EXCEPT !.pc = "none"]

Init ==
    /\ now = 0
    /\ nclock = 0
    /\ upstream = [m \in Msgs |-> "unsent"]
    /\ message_cache = << >>
    /\ message_tracking = [m \in Msgs |-> NoRow]
    /\ platform_messages = [m \in Msgs |-> NoMapping]
    /\ dbdown = FALSE
    /\ dblock = "free"
    /\ h = [t \in Tasks |-> Idle]
    /\ poll = Asleep(0)
    /\ posts = [m \in Msgs |-> << >>]
    /\ resolved = [m \in Msgs |-> {}]
    /\ markedNull = [m \in Msgs |-> FALSE]
    /\ storeFailed = [m \in Msgs |-> FALSE]
    /\ dup = [m \in Msgs |-> [seen |-> FALSE, recorded |-> FALSE]]
    /\ polled = [m \in Msgs |-> "no"]
    /\ dispatched = NoEvent
    /\ proc = Serving

\* ------------------------------------------------------- the environment
AdvanceClock(d) ==
    /\ nclock < MaxClockSteps
    /\ now' = now + d
    /\ nclock' = nclock + 1
    /\ UNCHANGED <<upstream, message_cache, message_tracking, platform_messages,
                   dbdown, dblock, h, poll, posts, resolved, markedNull, storeFailed,
                   dup, polled, bootvars>>

StorageFail ==
    /\ ~dbdown
    /\ dbdown' = TRUE
    /\ UNCHANGED <<now, nclock, upstream, message_cache, message_tracking,
                   platform_messages, dblock, h, poll, posts, resolved, markedNull,
                   storeFailed, dup, polled, bootvars>>

StorageRecover ==
    /\ dbdown
    /\ dbdown' = FALSE
    /\ UNCHANGED <<now, nclock, upstream, message_cache, message_tracking,
                   platform_messages, dblock, h, poll, posts, resolved, markedNull,
                   storeFailed, dup, polled, bootvars>>

\* The relay: recordSeen, attachMapping, and the row of platform_messages.
\* It is another process; SQLite makes it wait while a handler's
\* transaction holds the write lock.
RelayCanWrite == ~dbdown /\ dblock = "free"

RelayRecordSeen(m) ==
    /\ RelayCanWrite
    /\ upstream[m] # "unsent"
    /\ ~message_tracking[m].exists
    /\ message_tracking' = [message_tracking EXCEPT ![m] = InsertOrIgnore(@)]
    /\ UNCHANGED <<envvars, message_cache, platform_messages, dblock, h, poll, posts,
                   histvars, polled, bootvars>>

\* A duplicate "seen" notification reaches recordSeen.
RelayRecordSeenAgain(m) ==
    /\ RelayCanWrite
    /\ message_tracking[m].exists
    /\ ~dup[m].recorded
    /\ message_tracking' = [message_tracking EXCEPT ![m] = InsertOrIgnore(@)]
    /\ dup' = [dup EXCEPT ![m].recorded = TRUE]
    /\ UNCHANGED <<envvars, message_cache, platform_messages, dblock, h, poll, posts,
                   resolved, markedNull, storeFailed, polled, bootvars>>

RelayAttachMapping(m, k) ==
    /\ RelayCanWrite
    /\ message_tracking[m].exists
    /\ message_tracking[m].mapping_id = NoMapping
    /\ message_tracking' = [message_tracking EXCEPT ![m].mapping_id = k]
    /\ UNCHANGED <<envvars, message_cache, platform_messages, dblock, h, poll, posts,
                   histvars, polled, bootvars>>

RelayPlatformMapping(m, k) ==
    /\ RelayCanWrite
    /\ upstream[m] # "unsent"
    /\ platform_messages[m] = NoMapping
    /\ platform_messages' = [platform_messages EXCEPT ![m] = k]
    /\ UNCHANGED <<envvars, message_cache, message_tracking, dblock, h, poll, posts,
                   histvars, polled, bootvars>>

\* ---------------------------------------------------------- track_message
\* A new message of the monitored chat: the platform has it and the
\* handler caches it under its id with the time of the call.
track_message(m, kind) ==
    /\ LoopFree
    /\ upstream[m] = "unsent"
    /\ upstream' = [upstream EXCEPT ![m] = kind]
    /\ message_cache' = CachePut(message_cache, m, now)
    /\ UNCHANGED <<now, nclock, ledgervars, dbdown, dblock, h, poll, posts, histvars,
                   polled, bootvars>>

\* The seen event of a message the platform still has is delivered a second
\* time: track_message runs again for the same id.
SeenAgain(m) ==
    /\ LoopFree
    /\ upstream[m] \in Kinds
    /\ ~dup[m].seen
    /\ message_cache' = CachePut(message_cache, m, now)
    /\ dup' = [dup EXCEPT ![m].seen = TRUE]
    /\ UNCHANGED <<envvars, ledgervars, dblock, h, poll, posts, resolved, markedNull,
                   storeFailed, polled, bootvars>>

\* ------------------------------------------------- deletions on the platform
Present == {m \in Msgs : upstream[m] \in Kinds}

\* The platform deletes the messages of S and the live stream delivers the
\* event: an invocation of handle_deleted_messages is scheduled.
LiveDeletion(S) ==
    /\ S # {} /\ S \subseteq Present
    /\ h["live"].pc = "idle"
    /\ upstream' = [m \in Msgs |-> IF m \in S THEN "deleted" ELSE upstream[m]]
    /\ h' = [h EXCEPT !["live"] = [Idle EXCEPT !.pc = "begin", !.messages = SetToSeq(S)]]
    /\ UNCHANGED <<now, nclock, message_cache, ledgervars, dbdown, dblock, poll, posts,
                   histvars, polled, bootvars>>

\* The platform deletes the messages of S and the live stream misses it.
SilentDeletion(S) ==
    /\ S # {} /\ S \subseteq Present
    /\ upstream' = [m \in Msgs |-> IF m \in S THEN "deleted" ELSE upstream[m]]
    /\ UNCHANGED <<now, nclock, message_cache, ledgervars, dbdown, dblock, h, poll, posts,
                   histvars, polled, bootvars>>

\* ------------------------------------------------ handle_deleted_messages
\* The loop `for msg in messages` moves on: the next item, or db.commit().
NextItem(hr) ==
    IF hr.i < Len(hr.messages)
    THEN [hr EXCEPT !.pc = "item", !.i = hr.i + 1, !.webhook_data = NoData]
    ELSE [hr EXCEPT !.pc = "commit", !.webhook_data = NoData]

\* The loop `for msg_id, chat_id in messages` of periodic_check moves on:
\* the next get_messages is awaited, or the tick ends and the task sleeps.
PollNext(p, t) ==
    IF p.idx < Len(p.messages)
    THEN [p EXCEPT !.pc = "fetch", !.idx = p.idx + 1, !.res = "none", !.site = "none"]
    ELSE Asleep(t)

\* A poller that leaves the id cached after the handler.
PollAfterHandlerKeep(p, cache, ok, t) ==
    IF ok \/ p.site = "try" THEN [poll |-> PollNext(p, t), cache |-> cache]
    ELSE [poll |-> Asleep(t), cache |-> cache]

\* The handler the poller awaited has returned (ok) or raised.  From the
\* call in the try block an exception lands in `except Exception as e`,
\* whose text is of no not-found class, and the loop moves on; from the call
\* inside that except block it leaves the loop and ends the tick.  After a
\* normal return the poller deletes the id from the cache.
PollAfterHandler(p, cache, ok, t) ==
    LET m == p.messages[p.idx] IN
    IF ok THEN [poll |-> PollNext(p, t), cache |-> CacheDel(cache, m)]
    ELSE IF p.site = "try" THEN [poll |-> PollNext(p, t), cache |-> cache]
    ELSE [poll |-> Asleep(t), cache |-> cache]

\* The invocation of task t ends: the live one is over; the poller's one
\* gives control back to periodic_check.
Return(t, ok) ==
    /\ h' = [h EXCEPT ![t] = Idle]
    /\ IF t = "poll"
       THEN LET r == PollAfterHandler(poll, message_cache, ok, now)
            IN poll' = r.poll /\ message_cache' = r.cache
       ELSE UNCHANGED <<poll, message_cache>>

\* The ids of S whose resolution a storage failure has just hit while they
\* were cached.
NoteFailed(S) ==
    storeFailed' = [m \in Msgs |-> storeFailed[m] \/ (m \in S /\ InCache(m))]

\* db = get_db(): sqlite3.connect raises when the storage is unavailable,
\* outside every try of the handler.
HBegin(t) ==
    /\ h[t].pc = "begin"
    /\ ~Running(Other(t))
    /\ IF dbdown
       THEN /\ Return(t, FALSE)
            /\ NoteFailed(Range(h[t].messages))
       ELSE /\ h' = [h EXCEPT ![t].pc = "item", ![t].i = 1]
            /\ UNCHANGED <<poll, message_cache, storeFailed>>
    /\ UNCHANGED <<envvars, ledgervars, dblock, posts, resolved, markedNull, dup, polled,
            bootvars>>

\* One pass of the loop body up to the webhook call, storage failing: a
\* statement raises and `except Exception as e` of the item logs it.
HItemFails(t) ==
    /\ h[t].pc = "item"
    /\ dbdown
    /\ h' = [h EXCEPT ![t] = NextItem(h[t])]
    /\ NoteFailed({h[t].messages[h[t].i]})
    /\ UNCHANGED <<envvars, message_cache, ledgervars, dblock, poll, posts, resolved,
                   markedNull, dup, polled, bootvars>>

\* The other invocation's transaction holds the write lock: the UPDATE
\* waits for the busy timeout of the connection, with the event loop
\* blocked, and raises "database is locked".
HItemLocked(t) ==
    /\ h[t].pc = "item"
    /\ ~dbdown
    /\ dblock = Other(t)
    /\ nclock < MaxClockSteps
    /\ now' = now + BusyTimeout
    /\ nclock' = nclock + 1
    /\ h' = [h EXCEPT ![t] = NextItem(h[t])]
    /\ NoteFailed({h[t].messages[h[t].i]})
    /\ UNCHANGED <<upstream, dbdown, message_cache, ledgervars, dblock, poll, posts,
                   resolved, markedNull, dup, polled, bootvars>>

\* One pass of the loop body up to the webhook call: the two SELECTs, the
\* UPDATE inside the connection's transaction, the choice of mapping_id,
\* and, with a mapping, session.post.
HItem(t) ==
    /\ h[t].pc = "item"
    /\ ~dbdown
    /\ dblock \in {"free", t}
    /\ LET m == h[t].messages[h[t].i]
           result == message_tracking[m]
           mapping_result == platform_messages[m]
           mapping_id == MappingOf(result, mapping_result)
           written == IF result.exists
                      THEN {[id |-> m, row |-> MarkDeleted(result, now),
                             mapping_id |-> mapping_id]}
                      ELSE {}
           hr == [h[t] EXCEPT !.pending = {w \in h[t].pending : w.id # m} \cup written]
       IN /\ dblock' = t
          /\ resolved' = [resolved EXCEPT
                            ![m] = resolved[m] \cup {[via |-> t, mapping_id |-> mapping_id,
                                                      row |-> result.exists]}]
          /\ IF mapping_id # NoMapping
             THEN h' = [h EXCEPT ![t] =
                          [hr EXCEPT !.pc = "post",
                                     !.webhook_data = [telegram_msg_id |-> m,
                                                       mapping_id |-> mapping_id]]]
             ELSE h' = [h EXCEPT ![t] = NextItem(hr)]
    /\ UNCHANGED <<envvars, message_cache, ledgervars, poll, posts, markedNull, storeFailed,
                   dup, polled, bootvars>>

\* The webhook call is over: a response (200 or not) or an exception of the
\* client, each only logged; the loop moves on.
HPostDone(t, status) ==
    /\ h[t].pc = "post"
    /\ LoopFree
    /\ LET m == h[t].messages[h[t].i]
       IN posts' = [posts EXCEPT ![m] = Append(posts[m],
                      [telegram_msg_id |-> h[t].webhook_data.telegram_msg_id,
                       mapping_id |-> h[t].webhook_data.mapping_id,
                       status |-> status])]
    /\ h' = [h EXCEPT ![t] = NextItem(h[t])]
    /\ UNCHANGED <<envvars, message_cache, ledgervars, dblock, poll, resolved, markedNull,
                   storeFailed, dup, polled, bootvars>>

\* db.commit() with the storage unavailable and a transaction open: it
\* raises out of the handler, the connection is dropped and its
\* transaction rolled back.
HCommitFails(t) ==
    /\ h[t].pc = "commit"
    /\ dbdown /\ dblock = t
    /\ dblock' = "free"
    /\ Return(t, FALSE)
    /\ NoteFailed({w.id : w \in h[t].pending})
    /\ UNCHANGED <<envvars, ledgervars, posts, resolved, markedNull, dup, polled, bootvars>>

\* db.commit(); db.close(): the rows written by the UPDATEs become the
\* committed ones.
HCommit(t) ==
    /\ h[t].pc = "commit"
    /\ ~(dbdown /\ dblock = t)
    /\ message_tracking' =
         [m \in Msgs |->
            IF \E w \in h[t].pending : w.id = m
            THEN (CHOOSE w \in h[t].pending : w.id = m).row
            ELSE message_tracking[m]]
    /\ markedNull' =
         [m \in Msgs |->
            markedNull[m] \/ \E w \in h[t].pending : w.id = m /\ w.mapping_id = NoMapping]
    /\ dblock' = IF dblock = t THEN "free" ELSE dblock
    /\ Return(t, TRUE)
    /\ UNCHANGED <<envvars, platform_messages, posts, resolved, storeFailed, dup, polled,
            bootvars>>

\* ---------------------------------------------------------- periodic_check
\* asyncio.sleep(30) is over and a tick starts: get_db() (outside the try:
\* an exception ends the task), then the cache entries due for check, the
\* first 50, and the first get_messages is awaited.
PollWake ==
    /\ poll.pc = "sleep"
    /\ now >= poll.wakeAt
    /\ LoopFree
    /\ IF dbdown
       THEN poll' = [poll EXCEPT !.pc = "crashed"]
       ELSE LET messages == MessagesToCheck(message_cache, now)
            IN IF messages = << >>
               THEN poll' = Asleep(now)
               ELSE poll' = [poll EXCEPT !.pc = "fetch", !.current_time = now,
                                          !.messages = messages, !.idx = 1]
    /\ polled' = [m \in DOMAIN polled |->
                    IF ~dbdown /\ polled[m] = "no" /\ m \in DueIds(message_cache, now)
                    THEN "due" ELSE polled[m]]
    /\ UNCHANGED <<envvars, message_cache, ledgervars, dblock, h, posts, histvars, bootvars>>

\* The platform answers the get_messages the poller awaits.
FetchReply(res) ==
    /\ poll.pc = "fetch"
    /\ res \in FetchOutcomes(upstream[poll.messages[poll.idx]])
    /\ poll' = [poll EXCEPT !.pc = "fetched", !.res = res]
    /\ polled' = [polled EXCEPT ![poll.messages[poll.idx]] = "fetched"]
    /\ UNCHANGED <<envvars, message_cache, ledgervars, dblock, h, posts, histvars, bootvars>>

\* Where the answer sends the poller: to the handler from the try block, to
\* the handler from the except block, or on to the next id.
Classify(res) ==
    IF IsException(res)
    THEN (IF NotFoundClass(res) THEN "except" ELSE "next")
    ELSE (IF IsGone(res) THEN "try" ELSE "next")

\* The poller resumes with the answer.
PollResume ==
    /\ poll.pc = "fetched"
    /\ LoopFree
    /\ h["poll"].pc = "idle"
    /\ LET m == poll.messages[poll.idx]
           site == Classify(poll.res)
       IN IF site = "next"
          THEN /\ poll' = PollNext(poll, now)
               /\ UNCHANGED h
          ELSE /\ poll' = [poll EXCEPT !.pc = "in_handler", !.site = site, !.res = "none"]
               /\ h' = [h EXCEPT !["poll"] =
                          [Idle EXCEPT !.pc = "begin", !.messages = <<m>>]]
    /\ UNCHANGED <<envvars, message_cache, ledgervars, dblock, posts, histvars, polled,
            bootvars>>

\* ------------------------------------------------------------ dispatching
\* The client delivers a new-message event of a chat: the dispatcher runs
\* one handler of MessageHandlers, and only track_message caches the id.
DeliverMessage(m, kind, chat) ==
    /\ dispatched.listening
    /\ dispatched.n < MaxEvents
    /\ LoopFree
    /\ chat = "monitored" => upstream[m] = "unsent"
    /\ LET handler == Dispatched(MessageHandlers, chat)
       IN /\ dispatched' = [listening |-> safe_get_peer_type(chat) # "Peer id invalid",
                            n |-> dispatched.n + 1, event |-> "message", chat |-> chat,
                            ids |-> {m}, handler |-> handler]
          /\ message_cache' = IF handler = "track_message"
                              THEN CachePut(message_cache, m, now)
                              ELSE message_cache
    /\ upstream' = IF chat = "monitored" THEN [upstream EXCEPT ![m] = kind] ELSE upstream
    /\ UNCHANGED <<now, nclock, ledgervars, dbdown, dblock, h, poll, posts, histvars,
                   polled, proc>>

\* The client delivers a deletion event of a chat, with the ids of S: the
\* dispatcher runs one handler of DeletedHandlers, and only
\* handle_deleted_messages resolves the ids.
DeliverDeleted(S, chat) ==
    /\ dispatched.listening
    /\ dispatched.n < MaxEvents
    /\ S # {}
    /\ chat = "monitored" => S \subseteq Present
    /\ h["live"].pc = "idle"
    /\ LET handler == Dispatched(DeletedHandlers, chat)
       IN /\ dispatched' = [listening |-> safe_get_peer_type(chat) # "Peer id invalid",
                            n |-> dispatched.n + 1, event |-> "deleted", chat |-> chat,
                            ids |-> S, handler |-> handler]
          /\ h' = IF handler = "handle_deleted_messages"
                  THEN [h EXCEPT !["live"] =
                          [Idle EXCEPT !.pc = "begin", !.messages = SetToSeq(S)]]
                  ELSE h
    /\ upstream' = IF chat = "monitored"
                   THEN [m \in Msgs |-> IF m \in S THEN "deleted" ELSE upstream[m]]
                   ELSE upstream
    /\ UNCHANGED <<now, nclock, message_cache, ledgervars, dbdown, dblock, poll, posts,
                   histvars, polled, proc>>

\* ------------------------------------------------------------------ main
\* await app.start(): it returns, or raises and main() re-raises, and the
\* script exits.
AppStart(ok) ==
    /\ proc.pc = "start"
    /\ proc' = IF ok THEN [proc EXCEPT !.pc = "get_me", !.started = TRUE]
               ELSE Exited(proc, "app.start")
    /\ UNCHANGED <<envvars, message_cache, ledgervars, dblock, h, poll, posts, histvars,
                   polled, dispatched>>

\* await app.get_me()
GetMe(ok) ==
    /\ proc.pc = "get_me"
    /\ proc' = IF ok THEN [proc EXCEPT !.pc = "verify"] ELSE Exited(proc, "get_me")
    /\ UNCHANGED <<envvars, message_cache, ledgervars, dblock, h, poll, posts, histvars,
                   polled, dispatched>>

\* The verification of the group, whose failure is logged and passed over.
VerifyGroup(ok) ==
    /\ proc.pc = "verify"
    /\ proc' = [proc EXCEPT !.pc = "create"]
    /\ UNCHANGED <<envvars, message_cache, ledgervars, dblock, h, poll, posts, histvars,
                   polled, dispatched>>

\* asyncio.create_task(periodic_check()): the task runs up to its first
\* asyncio.sleep(30), and main() waits for ever.
CreatePollTask ==
    /\ proc.pc = "create"
    /\ proc' = [proc EXCEPT !.pc = "serving"]
    /\ poll' = Asleep(now)
    /\ UNCHANGED <<envvars, message_cache, ledgervars, dblock, h, posts, histvars,
                   polled, dispatched>>

\* KeyboardInterrupt: asyncio.run cancels the tasks and the script ends.
Interrupt ==
    /\ proc.pc # "exited"
    /\ proc' = Exited(proc, "KeyboardInterrupt")
    /\ poll' = IF poll.pc = "none" THEN poll ELSE [poll EXCEPT !.pc = "cancelled"]
    /\ UNCHANGED <<envvars, message_cache, ledgervars, dblock, h, posts, histvars,
                   polled, dispatched>>

\* A new text message of the monitored chat, once the client is started.
TrackWhenStarted(m) ==
    /\ proc.started
    /\ proc.pc # "exited"
    /\ track_message(m, "text")

\* ------------------------------------------------------------------ Next
\* The detector in its whole environment (the clock, the platform, the
\* relay, the storage failing and recovering), around the messages of
\* RaceMsgs.
Next ==
    \/ \E d \in ClockSteps : AdvanceClock(d)
    \/ StorageFail
    \/ StorageRecover
    \/ \E m \in RaceMsgs : RelayRecordSeen(m)
    \/ \E m \in RaceMsgs, k \in MapIds : RelayAttachMapping(m, k)
    \/ \E m \in RaceMsgs, k \in PlatformMapIds : RelayPlatformMapping(m, k)
    \/ \E m \in RaceMsgs, kind \in Kinds : track_message(m, kind)
    \/ \E S \in SUBSET RaceMsgs : LiveDeletion(S)
    \/ \E S \in SUBSET RaceMsgs : SilentDeletion(S)
    \/ \E t \in Tasks : HBegin(t)
    \/ \E t \in Tasks : HItemFails(t)
    \/ \E t \in Tasks : HItemLocked(t)
    \/ \E t \in Tasks : HItem(t)
    \/ \E t \in Tasks, status \in PostOutcomes : HPostDone(t, status)
    \/ \E t \in Tasks : HCommitFails(t)
    \/ \E t \in Tasks : HCommit(t)
    \/ PollWake
    \/ \E res \in AllFetchOutcomes : FetchReply(res)
    \/ PollResume

Spec == Init /\ [][Next]_vars

\* The cache and the poller with all the messages of Msgs, the storage
\* staying available and the relay writing nothing: no row, no mapping, and
\* so no webhook call and no transaction held across an await.
NextCache ==
    \/ \E d \in ClockSteps : AdvanceClock(d)
    \/ \E m \in Msgs, kind \in Kinds : track_message(m, kind)
    \/ \E S \in SUBSET Msgs : LiveDeletion(S)
    \/ \E S \in SUBSET Msgs : SilentDeletion(S)
    \/ \E t \in Tasks : HBegin(t)
    \/ \E t \in Tasks : HItem(t)
    \/ \E t \in Tasks : HCommit(t)
    \/ PollWake
    \/ \E res \in AllFetchOutcomes : FetchReply(res)
    \/ PollResume

SpecCache == Init /\ [][NextCache]_vars

\* The poller and its handler with all the messages of Msgs and the storage
\* failing and recovering, the relay writing nothing and no live event.
NextFaults ==
    \/ \E d \in ClockSteps : AdvanceClock(d)
    \/ StorageFail
    \/ StorageRecover
    \/ \E m \in Msgs, kind \in Kinds : track_message(m, kind)
    \/ \E S \in SUBSET Msgs : SilentDeletion(S)
    \/ HBegin("poll")
    \/ HItemFails("poll")
    \/ HItem("poll")
    \/ HCommitFails("poll")
    \/ HCommit("poll")
    \/ PollWake
    \/ \E res \in AllFetchOutcomes : FetchReply(res)
    \/ PollResume

SpecFaults == Init /\ [][NextFaults]_vars

\* The listener: the events of the monitored chat and of other chats, as
\* the dispatcher hands them to the handlers, around the relay and the
\* clock.
NextDispatch ==
    \/ \E d \in ClockSteps : AdvanceClock(d)
    \/ \E m \in Msgs, kind \in Kinds, chat \in Chats : DeliverMessage(m, kind, chat)
    \/ \E S \in SUBSET Msgs, chat \in Chats : DeliverDeleted(S, chat)
    \/ \E m \in Msgs : RelayRecordSeen(m)
    \/ \E m \in Msgs, k \in MapIds : RelayAttachMapping(m, k)
    \/ PollWake

SpecDispatch == Init /\ [][NextDispatch]_vars

\* The start of the process: main() from its first line, with text
\* messages that stay on the platform.
InitStartup ==
    /\ now = 0
    /\ nclock = 0
    /\ upstream = [m \in Msgs |-> "unsent"]
    /\ message_cache = << >>
    /\ message_tracking = [m \in Msgs |-> NoRow]
    /\ platform_messages = [m \in Msgs |-> NoMapping]
    /\ dbdown = FALSE
    /\ dblock = "free"
    /\ h = [t \in Tasks |-> Idle]
    /\ poll = NotCreated
    /\ posts = [m \in Msgs |-> << >>]
    /\ resolved = [m \in Msgs |-> {}]
    /\ markedNull = [m \in Msgs |-> FALSE]
    /\ storeFailed = [m \in Msgs |-> FALSE]
    /\ dup = [m \in Msgs |-> [seen |-> FALSE, recorded |-> FALSE]]
    /\ polled = [m \in Msgs |-> "no"]
    /\ dispatched = NoEvent
    /\ proc = Starting

NextStartup ==
    \/ \E ok \in BOOLEAN : AppStart(ok)
    \/ \E ok \in BOOLEAN : GetMe(ok)
    \/ \E ok \in BOOLEAN : VerifyGroup(ok)
    \/ CreatePollTask
    \/ Interrupt
    \/ \E d \in ClockSteps : AdvanceClock(d)
    \/ \E m \in Msgs : TrackWhenStarted(m)
    \/ PollWake
    \/ \E res \in AllFetchOutcomes : FetchReply(res)
    \/ PollResume

SpecStartup == InitStartup /\ [][NextStartup]_vars

\* Seen events delivered twice: track_message and the relay's recordSeen
\* each run a second time for a message, around the clock and the mapping.
NextSeen ==
    \/ \E d \in ClockSteps : AdvanceClock(d)
    \/ \E m \in Msgs, kind \in Kinds : track_message(m, kind)
    \/ \E m \in Msgs : SeenAgain(m)
    \/ \E m \in Msgs : RelayRecordSeen(m)
    \/ \E m \in Msgs : RelayRecordSeenAgain(m)
    \/ \E m \in Msgs, k \in MapIds : RelayAttachMapping(m, k)

SpecSeen == Init /\ [][NextSeen]_vars

\* A burst of one message more than a tick checks, all of them staying on
\* the platform, and the poller ticking at its interval until the retention
\* window of the burst is over.
NumBatchMsgs == BatchLimit + 1

BatchMsgs == 1..NumBatchMsgs

InitBatch ==
    /\ now = 0
    /\ nclock = 0
    /\ upstream = [m \in BatchMsgs |-> "unsent"]
    /\ message_cache = << >>
    /\ message_tracking = [m \in BatchMsgs |-> NoRow]
    /\ platform_messages = [m \in BatchMsgs |-> NoMapping]
    /\ dbdown = FALSE
    /\ dblock = "free"
    /\ h = [t \in Tasks |-> Idle]
    /\ poll = Asleep(0)
    /\ posts = [m \in BatchMsgs |-> << >>]
    /\ resolved = [m \in BatchMsgs |-> {}]
    /\ markedNull = [m \in BatchMsgs |-> FALSE]
    /\ storeFailed = [m \in BatchMsgs |-> FALSE]
    /\ dup = [m \in BatchMsgs |-> [seen |-> FALSE, recorded |-> FALSE]]
    /\ polled = [m \in BatchMsgs |-> "no"]
    /\ dispatched = NoEvent
    /\ proc = Serving

\* The messages of the burst arrive in the order of their ids, before the
\* clock has moved.
TrackBurst ==
    /\ now = 0
    /\ Len(message_cache) < NumBatchMsgs
    /\ track_message(Len(message_cache) + 1, "text")

\* await asyncio.sleep(30): the time of the sleep passes, and none passes
\* while a tick runs.
SleepElapses ==
    /\ poll.pc = "sleep"
    /\ now < poll.wakeAt
    /\ now < MaxBatchTime
    /\ now' = poll.wakeAt
    /\ UNCHANGED <<nclock, upstream, message_cache, message_tracking, platform_messages,
                   dbdown, dblock, h, poll, posts, resolved, markedNull, storeFailed,
                   dup, polled, bootvars>>

NextBatch ==
    \/ TrackBurst
    \/ SleepElapses
    \/ PollWake
    \/ \E res \in AllFetchOutcomes : FetchReply(res)
    \/ PollResume

SpecBatch == InitBatch /\ [][NextBatch]_vars

\* ================================================================ claims
Age(m) == now - CacheEntry(m).timestamp

BothIdle == h["live"].pc = "idle" /\ h["poll"].pc = "idle"

\* The webhook calls for m that the endpoint answered.
Answered(m) == SelectSeq(posts[m], LAMBDA p : p.status # 0)

\* The paths whose handler found a mapping for m.
MappedVia(m) == {r.via : r \in {x \in resolved[m] : x.mapping_id # NoMapping}}

\* C1: for every message, whatever the sequence of handler invocations
\* for it, the endpoint receives at most one webhook call.
C1_AtMostOnePost == \A m \in Msgs : Len(Answered(m)) <= 1

\* C2: when the live handler and the poller's handler have both resolved
\* the same message, each finding its mapping, and the endpoint answered
\* every call, exactly one webhook call was made for it.
C2_ExactlyOnePost ==
    \A m \in Msgs :
        (MappedVia(m) = Tasks /\ BothIdle /\ Len(Answered(m)) = Len(posts[m]))
            => Len(posts[m]) = 1

\* C3: a message marked deleted (and committed) while it had no mapping
\* never gets a webhook call, whenever a mapping is attached afterwards.
C3_NoPostAfterNullMark == \A m \in Msgs : markedNull[m] => posts[m] = << >>

\* C4: a cached message deleted upstream whose resolution hit a storage
\* failure stays in the cache for as long as its row is not marked deleted.
C4_FailedStaysCached ==
    \A m \in Msgs :
        (/\ storeFailed[m] /\ BothIdle
         /\ upstream[m] = "deleted"
         /\ message_tracking[m].exists /\ ~message_tracking[m].is_deleted) => InCache(m)

\* C5: no step takes a committed row from is_deleted = TRUE back to FALSE.
C5_MonotonicDeletion ==
    [][\A m \in Msgs : message_tracking[m].is_deleted => message_tracking'[m].is_deleted]_vars

\* A handler is about to commit a second mark of a row already marked.
C5_Witness ==
    \E t \in Tasks :
        /\ h[t].pc = "commit"
        /\ \E w \in h[t].pending : message_tracking[w.id].is_deleted

\* C6: when the poller resumes with a fetch error that is not of the
\* not-found class, it invokes no handler and changes neither the cache nor
\* the ledger nor the webhook calls, and the entry is selected again at any
\* later tick time at which its age is inside the window.
C6_TransientKeepsEntry ==
    [][(poll.pc = "fetched" /\ poll.res = "FLOOD_WAIT" /\ poll' # poll)
        => LET m == poll.messages[poll.idx]
           IN /\ message_cache' = message_cache
              /\ InCache(m)
              /\ message_tracking' = message_tracking
              /\ posts' = posts
              /\ h' = h
              /\ poll'.pc \in {"fetch", "sleep"}
              /\ \A d \in ClockSteps :
                    (now + d - CacheEntry(m).timestamp < MaxRetention)
                        => m \in Range(MessagesToCheck(message_cache', now + d))]_vars

\* The fetch of a cached message that is deleted upstream and has a row
\* with a mapping has failed with a transient error.
C6_Witness ==
    /\ poll.pc = "fetched" /\ poll.res = "FLOOD_WAIT"
    /\ LET m == poll.messages[poll.idx]
       IN /\ upstream[m] = "deleted"
          /\ message_tracking[m].exists /\ message_tracking[m].mapping_id # NoMapping
          /\ ~message_tracking[m].is_deleted

\* C7: every webhook call carries the id being resolved and the mapping a
\* handler looked up for it, and once the handlers are over the row the
\* lookups found is marked deleted.
C7_PostedMappingAndMarked ==
    \A m \in Msgs :
        /\ \A k \in 1..Len(posts[m]) :
              /\ posts[m][k].telegram_msg_id = m
              /\ \E r \in resolved[m] : r.mapping_id = posts[m][k].mapping_id
        /\ (posts[m] # << >> /\ BothIdle /\ \A r \in resolved[m] : r.row)
              => message_tracking[m].is_deleted

\* The step awaits a get_messages: the first of a tick, or the next one.
FetchIssued == poll'.pc = "fetch" /\ poll.pc # "fetch"

C9_NoFetchBeyondRetention ==
    [][FetchIssued
        => LET m == poll'.messages[poll'.idx]
           IN now' - EntryOf(message_cache', m).timestamp <= MaxRetention]_vars

\* C9 amended: the ids a tick has selected are those of cached entries whose
\* age, at the current_time of the tick, was below the retention window.
C9_SelectedWithinRetention ==
    poll.pc \in {"fetch", "fetched", "in_handler"}
        => \A k \in poll.idx..Len(poll.messages) :
              /\ InCache(poll.messages[k])
              /\ poll.current_time - CacheEntry(poll.messages[k]).timestamp < MaxRetention

\* A tick has selected one entry and left out another whose age had
\* reached the retention window.
C9_Witness ==
    /\ poll.pc = "fetch"
    /\ \E m \in Msgs :
          /\ InCache(m)
          /\ poll.current_time - CacheEntry(m).timestamp >= MaxRetention
          /\ m \notin Range(poll.messages)

\* C10: after every insert into the cache, no entry older than the
\* retention window is left in it.
C10_ExpiredEvictedOnInsert ==
    [][Len(message_cache') > Len(message_cache)
        => \A k \in 1..Len(message_cache') :
              now' - message_cache'[k].timestamp <= MaxRetention]_vars

\* The webhook call the step has just recorded for m.
LastPost(m) == posts'[m][Len(posts'[m])]

\* The step ends the webhook call of task t.
PostEnds(t) == h[t].pc = "post" /\ h'[t] # h[t]

\* C11: when a webhook call fails (an exception or a status other than
\* 200) and fewer than 3 calls have been made for the message, the handler
\* makes the call again before it moves on.
C11_RetriesFailedPost ==
    [][\A t \in Tasks :
          PostEnds(t)
            => LET m == h[t].messages[h[t].i]
               IN (LastPost(m).status # StatusOK /\ Len(posts'[m]) < 3)
                     => (h'[t].pc = "post" /\ h'[t].i = h[t].i)]_vars

\* Some webhook call for m has failed.
PostFailed(m) == \E k \in 1..Len(posts[m]) : posts[m][k].status # StatusOK

\* C12: a failed webhook call leaves the handler going on with its batch,
\* and when the handler is over, each row it has marked and whose webhook
\* call failed is committed with is_deleted set and deleted_at set.
C12_FailedPostKeepsMark ==
    [][\A t \in Tasks :
          /\ (PostEnds(t) /\ LastPost(h[t].messages[h[t].i]).status # StatusOK)
                => h'[t] = NextItem(h[t])
          /\ (h[t].pc = "commit" /\ h'[t].pc = "idle")
                => \A w \in h[t].pending :
                      PostFailed(w.id)
                        => /\ message_tracking'[w.id].is_deleted
                           /\ message_tracking'[w.id].deleted_at # -1]_vars

\* C13: when the lookup of a handler finds no mapping in either table, the
\* handler makes no webhook call for the message and marks its row, if
\* there is one; and no webhook call carries an empty mapping.
C13_NoPostWithoutMapping ==
    [][/\ \A t \in Tasks :
             (h[t].pc = "item" /\ h'[t] # h[t] /\ ~dbdown /\ dblock \in {"free", t})
               => LET m == h[t].messages[h[t].i]
                  IN (message_tracking[m].mapping_id = NoMapping
                        /\ platform_messages[m] = NoMapping)
                       => /\ h'[t].pc # "post"
                          /\ posts' = posts
                          /\ message_tracking[m].exists
                                => \E w \in h'[t].pending : w.id = m /\ w.row.is_deleted
       /\ \A m \in Msgs :
             posts'[m] # posts[m] => LastPost(m).mapping_id # NoMapping]_vars

\* A handler is about to commit the mark of a row for which it found no
\* mapping and made no webhook call.
C13_Witness ==
    \E t \in Tasks :
        /\ h[t].pc = "commit"
        /\ \E w \in h[t].pending : w.mapping_id = NoMapping /\ posts[w.id] = << >>

C15_DeletedAtSetOnce ==
    [][\A m \in Msgs :
          message_tracking[m].is_deleted
            => message_tracking'[m].deleted_at = message_tracking[m].deleted_at]_vars

\* C16: every row with is_deleted set has deleted_at set, in the committed
\* table and in the open transaction of each handler.
C16_DeletedHasDeletedAt ==
    /\ \A m \in Msgs :
          message_tracking[m].is_deleted => message_tracking[m].deleted_at # -1
    /\ \A t \in Tasks : \A w \in h[t].pending :
          w.row.is_deleted => w.row.deleted_at # -1

\* A row is committed as deleted at a time later than the start.
C16_Witness ==
    \E m \in Msgs : message_tracking[m].is_deleted /\ message_tracking[m].deleted_at > 0

\* C17: once a handler has resolved a message and its mark is committed,
\* whichever path called it, the message is not in the cache.
C17_ResolvedNotCached ==
    \A m \in Msgs :
        (/\ resolved[m] # {} /\ BothIdle
         /\ message_tracking[m].is_deleted) => ~InCache(m)

\* C18: no cache entry that a tick has found due passes the retention
\* window without a get_messages for it having been answered.
C18_NoStarvation ==
    \A m \in CacheIds(message_cache) :
        (polled[m] # "no" /\ Age(m) >= MaxRetention) => polled[m] = "fetched"

\* The poller resumes with the answer of a get_messages.
Resumes == poll.pc = "fetched" /\ poll' # poll

\* C19: when the poller resumes with a message the platform still has, it
\* invokes no handler, changes neither the ledger nor the webhook calls, and
\* leaves the entry in the cache.
C19_PresentUntouched ==
    [][(Resumes /\ poll.res \in Kinds)
        => /\ h' = h
           /\ message_tracking' = message_tracking
           /\ posts' = posts
           /\ message_cache' = message_cache
           /\ InCache(poll.messages[poll.idx])]_vars

\* The answers that say the message is gone: None, an empty message, or an
\* error of the not-found class.
GoneAnswer(res) == res \in {"None", "empty"} \/ (IsException(res) /\ NotFoundClass(res))

\* The poller resumes with such an answer and invokes the handler for the
\* id as a poll detection, the entry still cached.
InvokesHandler ==
    (Resumes /\ GoneAnswer(poll.res))
        => /\ poll'.pc = "in_handler"
           /\ h'["poll"].pc = "begin"
           /\ h'["poll"].messages = <<poll.messages[poll.idx]>>
           /\ message_cache' = message_cache
           /\ InCache(poll.messages[poll.idx])

\* The handler the poller called is over.
HandlerOver == poll.pc = "in_handler" /\ poll'.pc # "in_handler"

\* C20 as stated: on an answer that says the message is gone the poller
\* invokes the handler, the entry stays cached while the handler runs, and
\* once the handler is over the entry is out of the cache.
C20_HandlerThenRemoved ==
    [][/\ InvokesHandler
       /\ (poll.pc = "in_handler" /\ ~HandlerOver)
             => poll.messages[poll.idx] \in CacheIds(message_cache')
       /\ HandlerOver
             => /\ h'["poll"].pc = "idle"
                /\ poll.messages[poll.idx] \notin CacheIds(message_cache')]_vars

\* The handler the poller called is at db.commit() and the commit goes
\* through: the handler returns instead of raising.
ReturnsNormally == h["poll"].pc = "commit" /\ ~(dbdown /\ dblock = "poll")

\* C20 amended: the same, the entry leaving the cache once the handler has
\* returned normally, and staying in it when the handler has raised.
C20_RemovedAfterReturn ==
    [][/\ InvokesHandler
       /\ (poll.pc = "in_handler" /\ ~HandlerOver)
             => poll.messages[poll.idx] \in CacheIds(message_cache')
       /\ HandlerOver
             => /\ h'["poll"].pc = "idle"
                /\ IF ReturnsNormally
                   THEN poll.messages[poll.idx] \notin CacheIds(message_cache')
                   ELSE message_cache' = message_cache]_vars

\* The handler the poller called for a message gone from the platform is
\* about to commit, the entry still cached.
C20_Witness ==
    /\ poll.pc = "in_handler"
    /\ h["poll"].pc = "commit"
    /\ upstream[poll.messages[poll.idx]] = "deleted"
    /\ message_tracking[poll.messages[poll.idx]].exists
    /\ InCache(poll.messages[poll.idx])

\* C21: at every moment, each message for which a webhook call has been
\* made (its row found by the lookup) has its row committed as deleted.
C21_PostAfterCommit ==
    \A m \in Msgs :
        (posts[m] # << >> /\ \A r \in resolved[m] : r.row) => message_tracking[m].is_deleted

\* C26: periodic_check never ends: whatever fails inside a tick, the task
\* is asleep before its next tick or inside one.
C26_PollNeverEnds == poll.pc # "crashed"

\* The step is the lookup of task t, made with the storage available.
LooksUp(t) == h[t].pc = "item" /\ h'[t] # h[t] /\ ~dbdown /\ dblock \in {"free", t}

\* C30: the mapping the handler sends is the one of the row of
\* message_tracking whenever that row has one, else the one of
\* platform_messages when there is one, and with neither no call is made.
C30_MappingPrecedence ==
    [][\A t \in Tasks :
          LooksUp(t)
            => LET m == h[t].messages[h[t].i]
                   row == message_tracking[m]
                   sent == h'[t].webhook_data.mapping_id
               IN IF row.exists /\ row.mapping_id # NoMapping
                  THEN h'[t].pc = "post" /\ sent = row.mapping_id
                  ELSE IF platform_messages[m] # NoMapping
                  THEN h'[t].pc = "post" /\ sent = platform_messages[m]
                  ELSE h'[t].pc # "post" /\ posts' = posts]_vars

\* A handler is at the webhook call of a message that has a mapping in both
\* tables.
C30_Witness ==
    \E t \in Tasks :
        /\ h[t].pc = "post"
        /\ LET m == h[t].messages[h[t].i]
           IN /\ message_tracking[m].mapping_id \in MapIds
              /\ platform_messages[m] \in PlatformMapIds

\* A tick is under way: the poller awaits a fetch, has its answer, or
\* awaits the handler.
InTick == poll.pc \in {"fetch", "fetched", "in_handler"}

\* C27: a tick selects at most 50 ids, and the get_messages it awaits is
\* at most its 50th.
C27_AtMostBatchLimit ==
    InTick => (Len(poll.messages) <= BatchLimit /\ poll.idx <= BatchLimit)

\* A tick awaits its 50th get_messages while more than 50 entries are due.
C27_Witness ==
    /\ poll.pc = "fetch"
    /\ poll.idx = BatchLimit
    /\ Cardinality(DueIds(message_cache, poll.current_time)) > BatchLimit

\* C28: whatever runs between the awaits of a tick, an id leaves the cache
\* only when the poller comes back from the handler it called for that id,
\* which the tick has classified as deleted; the id is in the cache then,
\* and every other entry stays as it is.
C28_TickRemovesOnlyClassified ==
    [][\A m \in CacheIds(message_cache) \ CacheIds(message_cache') :
          /\ poll.pc = "in_handler" /\ poll'.pc # "in_handler"
          /\ poll.site \in {"try", "except"}
          /\ m = poll.messages[poll.idx]
          /\ message_cache' = SelectSeq(message_cache, LAMBDA e : e.id # m)]_vars

\* The poller awaits the handler for one id while another id, which the
\* tick has not selected, is in the cache ahead of it or behind it, and the
\* live handler is at work.
C28_Witness ==
    /\ poll.pc = "in_handler"
    /\ h["live"].pc # "idle"
    /\ \E m \in Msgs : InCache(m) /\ m \notin Range(poll.messages)

\* The step ends the poller's work on the current id of its batch.
PollItemEnds ==
    /\ poll.pc \in {"fetched", "in_handler"}
    /\ poll' # poll
    /\ poll'.pc # "in_handler"

\* The step ends the handler's work on the current id of its batch.
HandlerItemEnds(t) ==
    /\ h[t].pc \in {"item", "post"}
    /\ h'[t] # h[t]
    /\ h'[t].pc # "post"

\* C22: whatever fails for one id of a batch, while ids remain the poller
\* goes on to fetch the next id of its tick and the handler goes on to the
\* next id of its batch.
C22_ItemIsolation ==
    [][/\ (PollItemEnds /\ poll.idx < Len(poll.messages))
             => (poll'.pc = "fetch" /\ poll'.idx = poll.idx + 1
                   /\ poll'.messages = poll.messages)
       /\ \A t \in Tasks :
             (HandlerItemEnds(t) /\ h[t].i < Len(h[t].messages))
               => (h'[t].pc = "item" /\ h'[t].i = h[t].i + 1)]_vars

\* The step delivers an event to the listener.
Delivers(event) == dispatched'.n # dispatched.n /\ dispatched'.event = event

\* C23: for every new-message event of the monitored chat, track_message
\* runs and the id of the message is in the cache.
C23_SeenEventCached ==
    [][(Delivers("message") /\ dispatched'.chat = "monitored")
        => /\ dispatched'.handler = "track_message"
           /\ dispatched'.ids \subseteq CacheIds(message_cache')]_vars

\* C24: for every deletion event of the monitored chat,
\* handle_deleted_messages runs with each id of the batch once.
C24_DeletionEventHandled ==
    [][(Delivers("deleted") /\ dispatched'.chat = "monitored")
        => /\ dispatched'.handler = "handle_deleted_messages"
           /\ h'["live"].pc = "begin"
           /\ Range(h'["live"].messages) = dispatched'.ids
           /\ Len(h'["live"].messages) = Cardinality(dispatched'.ids)]_vars

\* C25: a deletion event of a chat other than the monitored one starts no
\* handler invocation, changes neither the ledger nor the webhook calls nor
\* the cache, and leaves the listener running.
C25_OtherChatDiscarded ==
    [][(Delivers("deleted") /\ dispatched'.chat # "monitored")
        => /\ h' = h
           /\ message_tracking' = message_tracking
           /\ platform_messages' = platform_messages
           /\ posts' = posts
           /\ message_cache' = message_cache
           /\ dispatched'.listening]_vars

\* A deletion event of a chat with an unresolved peer has been delivered,
\* carrying an id that has a row with a mapping in the ledger.
C25_Witness ==
    /\ dispatched.event = "deleted"
    /\ dispatched.chat = "unknown"
    /\ \E m \in dispatched.ids : message_tracking[m].mapping_id # NoMapping

\* C29: periodic_check is a task only once app.start() has returned, and
\* when app.start() fails it never is one and the process has exited with
\* a non-zero status.
C29_StartupOrdering ==
    /\ poll.pc # "none" => proc.started
    /\ proc.failed = "app.start"
          => (poll.pc = "none" /\ proc.pc = "exited" /\ proc.status # 0)

\* app.start() has failed and the process has exited.
C29_Witness == proc.pc = "exited" /\ proc.failed = "app.start"

====
